---------------------------- MODULE Spec2Model ----------------------------
(***************************************************************************)
(* A model of the AddressBook repository: the Address value object         *)
(* (src/src/address/address.py), the AddressBook collection and its JSON   *)
(* persistence (src/src/address/book.py) and the two mutating web          *)
(* handlers (src/src/webserver/__init__.py).                               *)
(*                                                                         *)
(* Python values are tagged records, Address objects live in a heap keyed  *)
(* by object identity, and the book's built-in set is a hash table whose   *)
(* entries remember the hash an object had when it was inserted.           *)
(***************************************************************************)
EXTENDS Integers, Sequences, FiniteSets, TLC

VARIABLES heap, books, file, last

vars == <<heap, books, file, last>>

----------------------------------------------------------------------------
(* Bounds of the model.                                                    *)

\* Address objects alive at once.
MaxObj == 3
\* Optional fields of one Address that are not None at the same time.
MaxOptional == 1
\* Keyword arguments one call of edit passes.
MaxEditFields == 2
\* Range of the modelled built-in hash (collisions happen).
HashMod == 61

----------------------------------------------------------------------------
(* Python values.                                                          *)

PyNone == [t |-> "None"]
PyStr(s) == [t |-> "str", v |-> s]
PyInt(n) == [t |-> "int", v |-> n]
\* MISSING: Any = _MissingSentinel()
MISSING == [t |-> "_MissingSentinel"]

\* x == y for None, str, int and the sentinel, whose __eq__ answers False
\* whichever side it stands on (the other side's __eq__ is NotImplemented).
PyEq(x, y) == IF x = MISSING \/ y = MISSING THEN FALSE ELSE x = y

\* bool(x)
Truthy(x) ==
  CASE x.t = "None" -> FALSE
    [] x.t = "_MissingSentinel" -> FALSE
    [] x.t = "str" -> x.v # ""
    [] x.t = "int" -> x.v # 0

\* x or None
OrNone(x) == IF Truthy(x) THEN x ELSE PyNone

\* The strings of the model, in the order that numbers their hashes.
StrUniverse == <<"a", "b", "x", "John Doe">>

StrCode(s) == CHOOSE i \in 1..Len(StrUniverse) : StrUniverse[i] = s

\* hash(x) of one value: hash("") is 0, the sentinel's __hash__ is 0.
PyHash(x) ==
  CASE x.t = "None" -> 7
    [] x.t = "_MissingSentinel" -> 0
    [] x.t = "str" -> IF x.v = "" THEN 0 ELSE 10 + StrCode(x.v)
    [] x.t = "int" -> x.v

----------------------------------------------------------------------------
(* Address: the eight fields, in the order of __init__ and of __hash__.    *)

Fields == <<"recipient_name", "organization_name", "building_number",
            "street_name", "apartment_number", "city", "state",
            "postal_code">>

FieldSet == {Fields[i] : i \in 1..Len(Fields)}

OptionalFields == FieldSet \ {"recipient_name"}

\* dict.get(k), which answers None for a missing key.
DictGet(d, k) == IF k \in DOMAIN d THEN d[k] ELSE PyNone

\* Address.__init__ applied to keyword arguments kw that name recipient_name:
\* the optional fields default to None, other keywords go to **kwargs.
Address_init(kw) ==
  [f \in FieldSet |->
     IF f = "recipient_name" THEN kw[f] ELSE DictGet(kw, f)]

\* Address(**kw): recipient_name is a required keyword-only argument.
Address(kw) ==
  IF "recipient_name" \in DOMAIN kw
  THEN [err |-> "none", fields |-> Address_init(kw)]
  ELSE [err |-> "TypeError", fields |-> PyNone]

\* Address.__eq__ with one field left out of the comparison.
Address_eq_skips_postal_code(a, b) ==
  \A i \in 1..(Len(Fields) - 1) : PyEq(a[Fields[i]], b[Fields[i]])

\* Address.__eq__: all([...]) over the eight pairwise comparisons.
Address_eq(a, b) ==
  /\ PyEq(a.recipient_name, b.recipient_name)
  /\ PyEq(a.organization_name, b.organization_name)
  /\ PyEq(a.building_number, b.building_number)
  /\ PyEq(a.street_name, b.street_name)
  /\ PyEq(a.apartment_number, b.apartment_number)
  /\ PyEq(a.city, b.city)
  /\ PyEq(a.state, b.state)
  /\ PyEq(a.postal_code, b.postal_code)

RECURSIVE TupleHash(_, _)
\* hash(tuple): the element hashes combined in order.
TupleHash(t, acc) ==
  IF t = <<>> THEN acc
  ELSE TupleHash(Tail(t), (acc * 31 + PyHash(Head(t))) % HashMod)

\* Address.__hash__: hash of the tuple of the eight fields.
Address_hash(a) == TupleHash([i \in 1..Len(Fields) |-> a[Fields[i]]], 1)

\* Address.id: "0" + str(hash(self))
Address_id(a) == "0" \o ToString(Address_hash(a))

\* Address.edit that tests the argument's truth instead of its identity.
edit_by_truth(a, kw) ==
  [f \in FieldSet |-> IF Truthy(kw[f]) THEN kw[f] ELSE a[f]]

\* Address.edit: each argument that is not MISSING overwrites its field.
edit(a, kw) ==
  [f \in FieldSet |-> IF kw[f] # MISSING THEN kw[f] ELSE a[f]]

\* Address.json that forgets the last field and always writes None for it.
json_drops_postal_code(a) ==
  [f \in FieldSet |->
     IF f = "recipient_name" THEN a[f]
     ELSE IF f = "postal_code" THEN PyNone ELSE OrNone(a[f])]

\* Address.json (and to_dict, which returns it): recipient_name as it is,
\* every optional field "or None".
json(a) ==
  [f \in FieldSet |-> IF f = "recipient_name" THEN a[f] ELSE OrNone(a[f])]

\* Address.to_dict
to_dict(a) == json(a)

\* Address.from_dict: every field read with json.get, so never an error.
from_dict(d) ==
  [err |-> "none", fields |-> [f \in FieldSet |-> DictGet(d, f)]]

\* Address.from_address
from_address(a) == Address_init([f \in FieldSet |-> a[f]])

\* Address.__delattr__: always raises, nothing is deleted.
Address_delattr(a, name) == [err |-> "AttributeError", fields |-> a]

----------------------------------------------------------------------------
(* The heap of Address objects and the inputs the callers draw from.       *)

\* The slot of an object that was never constructed.
NoObj == [t |-> "free"]

Obj == 1..MaxObj

FreeIds(cap) == {o \in 1..cap : heap[o] = NoObj}

Allocated == {o \in Obj : heap[o] # NoObj}

\* id(x) of the next object constructed.
NewId(cap) == CHOOSE o \in FreeIds(cap) : \A p \in FreeIds(cap) : o <= p

NonNone(a) == {f \in OptionalFields : a[f] # PyNone}

\* The bound on the values the model builds.
Within(a) == Cardinality(NonNone(a)) <= MaxOptional

SubsetsUpTo(S, n) == {T \in SUBSET S : Cardinality(T) <= n}

NameVals == {PyStr("a"), PyStr("b")}

OptVals == {PyNone, PyStr(""), PyStr("x")}

\* Keyword arguments of Address(...): with recipient_name and some optional
\* fields, or with recipient_name forgotten.
CtorInputs ==
  UNION {{[f \in {"recipient_name"} \cup S |->
             IF f = "recipient_name" THEN PyStr("a") ELSE vals[f]] :
            vals \in [S -> OptVals \ {PyNone}]} :
           S \in SubsetsUpTo(OptionalFields, MaxOptional)}
  \cup {[f \in {"recipient_name"} |-> PyStr("b")],
        [f \in {"city"} |-> PyStr("x")]}

\* Dictionaries handed to from_dict beside those to_dict returns: keys
\* missing, keys null.
DictInputs ==
  { <<>>,
    [f \in {"recipient_name"} |-> PyStr("a")],
    [f \in {"recipient_name"} |-> PyNone],
    [f \in {"city"} |-> PyStr("x")],
    [f \in {"recipient_name", "state"} |->
       IF f = "state" THEN PyNone ELSE PyStr("b")] }

\* Keyword arguments of edit: MISSING where the caller passes nothing.
EditInputs ==
  UNION {
    {[f \in FieldSet |-> IF f \in S THEN vals[f] ELSE MISSING] :
       vals \in {v \in [S -> NameVals \cup OptVals] :
                   \A f \in S : IF f = "recipient_name"
                                THEN v[f] \in NameVals
                                ELSE v[f] \in OptVals}} :
    S \in SubsetsUpTo(FieldSet, MaxEditFields)}

Passed(kw) == {f \in FieldSet : kw[f] # MISSING}

NoBook == [name |-> MISSING, id |-> MISSING, entries |-> {}]

NoFile == [t |-> "absent"]

Idle == [op |-> "start", obj |-> 0, arg |-> PyNone, err |-> "none",
         ret |-> PyNone]

----------------------------------------------------------------------------
(* Operations on the Address value object.                                 *)

\* a = Address(**kw)
Construct(cap, kw) ==
  /\ FreeIds(cap) # {}
  /\ LET r == Address(kw)
         o == NewId(cap)
     IN IF r.err = "none"
        THEN /\ Within(r.fields)
             /\ heap' = [heap EXCEPT ![o] = r.fields]
             /\ last' = [op |-> "Address", obj |-> o, arg |-> kw,
                         err |-> "none", ret |-> o]
        ELSE /\ heap' = heap
             /\ last' = [op |-> "Address", obj |-> 0, arg |-> kw,
                         err |-> r.err, ret |-> PyNone]
  /\ UNCHANGED <<books, file>>

\* a = Address.from_dict(d)
Call_from_dict(cap, d) ==
  /\ FreeIds(cap) # {}
  /\ LET r == from_dict(d)
         o == NewId(cap)
     IN IF r.err = "none"
        THEN /\ Within(r.fields)
             /\ heap' = [heap EXCEPT ![o] = r.fields]
             /\ last' = [op |-> "from_dict", obj |-> o, arg |-> d,
                         err |-> "none", ret |-> o]
        ELSE /\ heap' = heap
             /\ last' = [op |-> "from_dict", obj |-> 0, arg |-> d,
                         err |-> r.err, ret |-> PyNone]
  /\ UNCHANGED <<books, file>>

\* b = Address.from_address(a)
Call_from_address(cap, src) ==
  /\ src \in Allocated
  /\ FreeIds(cap) # {}
  /\ heap' = [heap EXCEPT ![NewId(cap)] = from_address(heap[src])]
  /\ last' = [op |-> "from_address", obj |-> NewId(cap), arg |-> src,
              err |-> "none", ret |-> NewId(cap)]
  /\ UNCHANGED <<books, file>>

\* a.edit(**kw): mutates a in place and returns self.
Call_edit(o, kw) ==
  /\ o \in Allocated
  /\ LET edited == edit(heap[o], kw)
     IN /\ Within(edited)
        /\ heap' = [heap EXCEPT ![o] = edited]
  /\ last' = [op |-> "edit", obj |-> o, arg |-> kw, err |-> "none",
              ret |-> o]
  /\ UNCHANGED <<books, file>>

\* del a.<name>
Call_delattr(o, name) ==
  /\ o \in Allocated
  /\ LET r == Address_delattr(heap[o], name)
     IN /\ heap' = [heap EXCEPT ![o] = r.fields]
        /\ last' = [op |-> "delattr", obj |-> o, arg |-> name,
                    err |-> r.err, ret |-> PyNone, pre |-> heap[o]]
  /\ UNCHANGED <<books, file>>

\* d = a.to_dict()
Call_to_dict(o) ==
  /\ o \in Allocated
  /\ last' = [op |-> "to_dict", obj |-> o, arg |-> PyNone, err |-> "none",
              ret |-> to_dict(heap[o])]
  /\ UNCHANGED <<heap, books, file>>

\* a == b, hash(a), hash(b), a.id, b.id
Compare(a, b) ==
  /\ a \in Allocated
  /\ b \in Allocated
  /\ last' = [op |-> "compare", obj |-> a, arg |-> b, err |-> "none",
              ret |-> [eq |-> Address_eq(heap[a], heap[b]),
                       hash_a |-> Address_hash(heap[a]),
                       hash_b |-> Address_hash(heap[b]),
                       id_a |-> Address_id(heap[a]),
                       id_b |-> Address_id(heap[b])]]
  /\ UNCHANGED <<heap, books, file>>

InitAddress ==
  /\ heap = [o \in Obj |-> NoObj]
  /\ books = [b \in {1, 2} |-> NoBook]
  /\ file = NoFile
  /\ last = Idle

NextAddress ==
  \/ \E kw \in CtorInputs : Construct(2, kw)
  \/ \E d \in DictInputs \cup {to_dict(heap[o]) : o \in Allocated} :
       Call_from_dict(2, d)
  \/ \E src \in Obj : Call_from_address(2, src)
  \/ \E o \in Obj : Call_to_dict(o)
  \/ \E a \in Obj, b \in Obj : Compare(a, b)

\* Two Address objects a and b: construction, conversion, comparison.
SpecAddress == InitAddress /\ [][NextAddress]_vars

NextEdit ==
  \/ \E kw \in CtorInputs : Construct(1, kw)
  \/ \E d \in DictInputs : Call_from_dict(1, d)
  \/ /\ last.op # "edit"
     /\ \E o \in Allocated, kw \in EditInputs : Call_edit(o, kw)
  \/ \E o \in Allocated, name \in FieldSet : Call_delattr(o, name)

\* One Address object under edit and attempted field deletion. The caller
\* tries a deletion between two edits, so every value the object takes is
\* still edited with every argument.
SpecEdit == InitAddress /\ [][NextEdit]_vars

----------------------------------------------------------------------------
(* The built-in set of the book: a hash table. An entry keeps the object   *)
(* and the hash it had when it was inserted; a lookup of x meets the       *)
(* entries stored under hash(x) and takes one that is x or equals x.       *)

set_lookup(entries, h, x) ==
  {e \in entries :
     /\ e.hash = Address_hash(h[x])
     /\ (e.obj = x \/ Address_eq(h[e.obj], h[x]))}

\* x in s
set_contains(entries, h, x) == set_lookup(entries, h, x) # {}

\* s.add(x) of a set that tells its members apart by identity alone.
set_add_by_identity(entries, h, x) ==
  IF \E e \in entries : e.obj = x THEN entries
  ELSE entries \cup {[obj |-> x, hash |-> Address_hash(h[x])]}

\* s.add(x)
set_add(entries, h, x) ==
  IF set_contains(entries, h, x) THEN entries
  ELSE entries \cup {[obj |-> x, hash |-> Address_hash(h[x])]}

\* s.discard(x) in the place of s.remove(x): a missing key is no error.
set_discard(entries, h, x) ==
  IF set_contains(entries, h, x)
  THEN [err |-> "none",
        after |-> {entries \ {e} : e \in set_lookup(entries, h, x)}]
  ELSE [err |-> "none", after |-> {entries}]

\* s.remove(x): KeyError when no entry matches; the entry the probe meets
\* first is the one removed.
set_remove(entries, h, x) ==
  IF set_contains(entries, h, x)
  THEN [err |-> "none",
        after |-> {entries \ {e} : e \in set_lookup(entries, h, x)}]
  ELSE [err |-> "KeyError", after |-> {entries}]

----------------------------------------------------------------------------
(* AddressBook.                                                            *)

BookIds == {1, 2}

HolderNames == {PyStr("John Doe")}

HolderIds == {PyInt(1), PyInt(2)}

\* Keyword arguments of the addresses put into books.
BookCtorInputs ==
  { [f \in {"recipient_name"} |-> PyStr("a")],
    [f \in {"recipient_name"} |-> PyStr("b")],
    [f \in {"recipient_name", "city"} |->
       IF f = "city" THEN PyStr("") ELSE PyStr("a")] }

\* Keyword arguments of edit applied to members of a book.
BookEditInputs ==
  { [f \in FieldSet |-> IF f = "recipient_name" THEN PyStr("a") ELSE MISSING],
    [f \in FieldSet |-> IF f = "recipient_name" THEN PyStr("b") ELSE MISSING],
    [f \in FieldSet |-> IF f = "city" THEN PyStr("x") ELSE MISSING],
    [f \in FieldSet |-> IF f = "city" THEN PyNone ELSE MISSING] }

Members(b) == {e.obj : e \in books[b].entries}

BookRec(op, b, o, arg, err, ret) ==
  [op |-> op, book |-> b, obj |-> o, arg |-> arg, err |-> err, ret |-> ret,
   pre |-> books[b].entries]

\* book.book_holder_name = name
Set_book_holder_name(b, name) ==
  /\ books' = [books EXCEPT ![b].name = name]
  /\ last' = BookRec("book_holder_name", b, 0, name, "none", PyNone)
  /\ UNCHANGED <<heap, file>>

\* book.book_holder_id = id
Set_book_holder_id(b, id) ==
  /\ books' = [books EXCEPT ![b].id = id]
  /\ last' = BookRec("book_holder_id", b, 0, id, "none", PyNone)
  /\ UNCHANGED <<heap, file>>

\* book.add_address(address)
add_address(b, o) ==
  /\ o \in Allocated
  /\ LET after == set_add(books[b].entries, heap, o)
     IN /\ Cardinality(after) <= MaxObj
        /\ books' = [books EXCEPT ![b].entries = after]
  /\ last' = BookRec("add_address", b, o, PyNone, "none", PyNone)
  /\ UNCHANGED <<heap, file>>

\* book[index] = address: the index is not read.
AddressBook_setitem(b, index, o) ==
  /\ o \in Allocated
  /\ LET after == set_add(books[b].entries, heap, o)
     IN /\ Cardinality(after) <= MaxObj
        /\ books' = [books EXCEPT ![b].entries = after]
  /\ last' = BookRec("__setitem__", b, o, index, "none", PyNone)
  /\ UNCHANGED <<heap, file>>

\* book.remove_address(address)
remove_address(b, o) ==
  /\ o \in Allocated
  /\ LET r == set_remove(books[b].entries, heap, o)
     IN /\ \E after \in r.after : books' = [books EXCEPT ![b].entries = after]
        /\ last' = BookRec("remove_address", b, o, PyNone, r.err, PyNone)
  /\ UNCHANGED <<heap, file>>

\* address in book, len(book)
Query(b, o) ==
  /\ o \in Allocated
  /\ last' = BookRec("query", b, o, PyNone, "none",
                     [contains |-> set_contains(books[b].entries, heap, o),
                      len |-> Cardinality(books[b].entries)])
  /\ UNCHANGED <<heap, books, file>>

\* AddressBook.__eq__ between two books: the holder ids compared with ==.
AddressBook_eq(x, y) == PyEq(x.id, y.id)

\* b1 == b2
Call_AddressBook_eq(b1, b2) ==
  /\ last' = BookRec("__eq__", b1, 0, b2, "none",
                     AddressBook_eq(books[b1], books[b2]))
  /\ UNCHANGED <<heap, books, file>>

\* member.edit(**kw) on an object the book holds.
EditMember(b, o, kw) ==
  /\ o \in Members(b)
  /\ heap' = [heap EXCEPT ![o] = edit(heap[o], kw)]
  /\ last' = BookRec("edit", b, o, kw, "none", o)
  /\ UNCHANGED <<books, file>>

----------------------------------------------------------------------------
(* JSON persistence.                                                       *)

JNull == [j |-> "null"]
JStr(s) == [j |-> "string", v |-> s]
JNum(n) == [j |-> "number", v |-> n]

\* json.dump of one value with cls=JsonEncoder: the encoder's default()
\* turns the sentinel into None, which is written as null.
JsonEncode(x) ==
  CASE x.t = "None" -> JNull
    [] x.t = "_MissingSentinel" -> JNull
    [] x.t = "str" -> JStr(x.v)
    [] x.t = "int" -> JNum(x.v)

\* json.load of one value.
JsonDecode(j) ==
  CASE j.j = "null" -> PyNone
    [] j.j = "string" -> PyStr(j.v)
    [] j.j = "number" -> PyInt(j.v)

\* The orders in which iterating the set can meet its entries.
IterOrders(entries) ==
  {s \in [1..Cardinality(entries) -> entries] :
     \A i, k \in 1..Cardinality(entries) : i # k => s[i] # s[k]}

\* AddressBook.to_dict, the set iterated in the given order.
AddressBook_to_dict(bk, h, order) ==
  [name |-> bk.name,
   id |-> bk.id,
   addresses |-> [i \in 1..Len(order) |-> to_dict(h[order[i].obj])]]

\* json.dump(d, file, indent=4, cls=JsonEncoder): the text of the file.
JsonDump(d) ==
  [name |-> JsonEncode(d.name),
   id |-> JsonEncode(d.id),
   addresses |-> [i \in 1..Len(d.addresses) |->
                    [f \in DOMAIN d.addresses[i] |->
                       JsonEncode(d.addresses[i][f])]]]

\* json.load(file)
JsonLoad(text) ==
  [name |-> JsonDecode(text.name),
   id |-> JsonDecode(text.id),
   addresses |-> [i \in 1..Len(text.addresses) |->
                    [f \in DOMAIN text.addresses[i] |->
                       JsonDecode(text.addresses[i][f])]]]

RECURSIVE LoadEntries(_, _, _)
\* The loop of from_file: add_address of each new object in turn.
LoadEntries(lh, i, acc) ==
  IF i > Len(lh) THEN acc
  ELSE LoadEntries(lh, i + 1, set_add(acc, lh, i))

\* AddressBook.from_file: a fresh book when the file does not exist, else
\* the holder and one Address(**address) per record of the file.
from_file(f) ==
  IF f = NoFile
  THEN [err |-> "none", name |-> MISSING, id |-> MISSING, heap |-> <<>>,
        entries |-> {}]
  ELSE LET data == JsonLoad(f)
           calls == [i \in 1..Len(data.addresses) |->
                       Address(data.addresses[i])]
           lh == [i \in 1..Len(calls) |-> calls[i].fields]
       IN IF \E i \in 1..Len(calls) : calls[i].err # "none"
          THEN [err |-> "TypeError", name |-> MISSING, id |-> MISSING,
                heap |-> <<>>, entries |-> {}]
          ELSE [err |-> "none", name |-> data.name, id |-> data.id,
                heap |-> lh, entries |-> LoadEntries(lh, 1, {})]

\* book.to_file(path): the file is overwritten.
to_file(b) ==
  /\ \E order \in IterOrders(books[b].entries) :
       file' = JsonDump(AddressBook_to_dict(books[b], heap, order))
  /\ last' = BookRec("to_file", b, 0, PyNone, "none", PyNone)
  /\ UNCHANGED <<heap, books>>

\* loaded = AddressBook.from_file(path); arg remembers the call before it.
Call_from_file ==
  /\ last' = [op |-> "from_file", book |-> 0, obj |-> 0, arg |-> last.op,
              err |-> from_file(file).err, ret |-> from_file(file),
              pre |-> {}]
  /\ UNCHANGED <<heap, books, file>>

----------------------------------------------------------------------------
(* Specifications of the book.                                             *)

NextBook ==
  \/ \E kw \in BookCtorInputs : Construct(MaxObj, kw)
  \/ \E o \in Obj : add_address(1, o)
  \/ \E o \in Obj, i \in {0, 1} : AddressBook_setitem(1, i, o)
  \/ \E o \in Obj : remove_address(1, o)
  \/ \E o \in Obj : Query(1, o)

\* One book under add, remove, indexed set and membership queries.
SpecBook == InitAddress /\ [][NextBook]_vars

NextBookEdit ==
  \/ \E kw \in BookCtorInputs : Construct(2, kw)
  \/ \E o \in Obj : add_address(1, o)
  \/ \E o \in Obj, i \in {0} : AddressBook_setitem(1, i, o)
  \/ \E o \in Obj : remove_address(1, o)
  \/ \E o \in Obj, kw \in BookEditInputs : EditMember(1, o, kw)

\* The same book when its members are edited in place.
SpecBookEdit == InitAddress /\ [][NextBookEdit]_vars

NextFile ==
  \/ \E kw \in BookCtorInputs : Construct(2, kw)
  \/ \E name \in HolderNames : Set_book_holder_name(1, name)
  \/ \E id \in {PyInt(1)} : Set_book_holder_id(1, id)
  \/ \E o \in Obj : add_address(1, o)
  \/ \E o \in Obj : remove_address(1, o)
  \/ to_file(1)
  \/ Call_from_file

\* One book saved to and loaded from one path.
SpecFile == InitAddress /\ [][NextFile]_vars

NextBooks ==
  \/ \E kw \in {[f \in {"recipient_name"} |-> PyStr("a")]} : Construct(1, kw)
  \/ \E b \in BookIds, name \in HolderNames : Set_book_holder_name(b, name)
  \/ \E b \in BookIds, id \in HolderIds : Set_book_holder_id(b, id)
  \/ \E b \in BookIds, o \in Obj : add_address(b, o)
  \/ \E b1 \in BookIds, b2 \in BookIds : Call_AddressBook_eq(b1, b2)

\* Two books compared with ==.
SpecBooks == InitAddress /\ [][NextBooks]_vars

----------------------------------------------------------------------------
(* The web layer: one global book, loaded when the module is imported, and *)
(* the handlers of /add and /delete/<address_id>. Both paths name the same *)
(* file when the server runs from the root of the repository.              *)

FormKeys == FieldSet \cup {"submit", "csrf_token"}

\* form.data of a submitted AddressForm: every StringField is a string,
\* empty when the user typed nothing.
AddressForm_data ==
  {[k \in FormKeys |->
      CASE k = "recipient_name" -> PyStr(name)
        [] k = "state" -> PyStr(st)
        [] k = "submit" -> PyInt(1)
        [] OTHER -> PyStr("")] :
     name \in {"a", "b", ""}, st \in {"x", ""}}

\* form.validate_on_submit(): recipient_name and state are DataRequired.
validate_on_submit(form) == Truthy(form["recipient_name"]) /\ Truthy(form["state"])

WebRec(op, arg, err) ==
  [op |-> op, book |-> 1, obj |-> 0, arg |-> arg, err |-> err,
   ret |-> PyNone, pre |-> books[1].entries]

\* book = AddressBook.from_file(r"src/address/address_book.json")
Startup ==
  /\ LET r == from_file(file)
     IN /\ r.err = "none"
        /\ heap' = [o \in Obj |-> IF o <= Len(r.heap) THEN r.heap[o] ELSE NoObj]
        /\ books' = [books EXCEPT ![1] = [name |-> r.name, id |-> r.id,
                                         entries |-> r.entries]]
  /\ last' = WebRec("startup", PyNone, "none")
  /\ UNCHANGED file

\* POST /add: a valid form is added and the book saved, another rendered
\* again. The new object lives on only as a member of the book.
add(form) ==
  IF validate_on_submit(form)
  THEN /\ FreeIds(MaxObj) # {}
       /\ LET o == NewId(MaxObj)
              h == [heap EXCEPT ![o] = Address(form).fields]
              after == set_add(books[1].entries, h, o)
              saved == [books[1] EXCEPT !.entries = after]
          IN /\ heap' = IF after = books[1].entries THEN heap ELSE h
             /\ books' = [books EXCEPT ![1] = saved]
             /\ \E order \in IterOrders(after) :
                  file' = JsonDump(AddressBook_to_dict(saved, h, order))
       /\ last' = WebRec("/add", form, "none")
  ELSE /\ last' = WebRec("/add", form, "invalid")
       /\ UNCHANGED <<heap, books, file>>

\* GET /delete/<address_id>: the first member met whose id is address_id is
\* removed; the book is not saved.
delete(address_id) ==
  LET hits == {e \in books[1].entries : Address_id(heap[e.obj]) = address_id}
  IN IF hits # {}
     THEN /\ \E e \in hits :
               LET r == set_remove(books[1].entries, heap, e.obj)
               IN /\ r.err = "none"
                  /\ \E after \in r.after :
                       /\ books' = [books EXCEPT ![1].entries = after]
                       /\ heap' = [o \in Obj |->
                                     IF o \in {x.obj : x \in after}
                                     THEN heap[o] ELSE NoObj]
          /\ last' = WebRec("/delete", address_id, "none")
          /\ UNCHANGED file
     ELSE /\ last' = WebRec("/delete", address_id, "no_match")
          /\ UNCHANGED <<heap, books, file>>

NextWeb ==
  \/ Startup
  \/ \E form \in AddressForm_data : add(form)
  \/ \E id \in {Address_id(heap[o]) : o \in Allocated} \cup {"0"} :
       delete(id)

\* The server process: requests, and restarts that load the book again.
SpecWeb == InitAddress /\ [][NextWeb]_vars

----------------------------------------------------------------------------
(* Properties.                                                             *)

\* Two values of an optional field count as the same when they are equal or
\* are None and the empty string.
SameOptional(x, y) == x = y \/ {x, y} \subseteq {PyNone, PyStr("")}

\* A non-empty recipient_name and optional fields that are None or strings.
ValidAddress(a) ==
  /\ a.recipient_name.t = "str"
  /\ a.recipient_name.v # ""
  /\ \A f \in OptionalFields : a[f].t \in {"None", "str"}

\* The field values of the members of a set, read from its heap.
MemberValues(entries, h) == {h[e.obj] : e \in entries}

\* Some member stored in entries equals the value x.
HasEqual(entries, h, x) == \E e \in entries : Address_eq(h[e.obj], x)

\* C1: from_dict(a.to_dict()) gives back a's recipient_name and, field by
\* field, a's optional values up to the equivalence of None and the empty
\* string; when a holds no empty string the result == a.
C1_FromDictOfToDict ==
  (last.op = "from_dict" /\ last.err = "none") =>
    \A a \in Allocated \ {last.ret} :
      (ValidAddress(heap[a]) /\ last.arg = to_dict(heap[a])) =>
        /\ PyEq(heap[last.ret].recipient_name, heap[a].recipient_name)
        /\ \A f \in OptionalFields :
             SameOptional(heap[last.ret][f], heap[a][f])
        /\ (\A f \in OptionalFields : heap[a][f] # PyStr(""))
             => Address_eq(heap[last.ret], heap[a])

\* C1 witness: an address with an empty string in a field went through
\* to_dict and from_dict, and the result equals it only up to None/"".
C1_Witness ==
  /\ last.op = "from_dict"
  /\ \E a \in Allocated \ {last.ret} :
       /\ ValidAddress(heap[a])
       /\ last.arg = to_dict(heap[a])
       /\ heap[a].city = PyStr("")
       /\ heap[last.ret].city = PyNone
       /\ ~Address_eq(heap[last.ret], heap[a])

\* C7: a == b exactly when the eight fields are pairwise equal, and then
\* hash(a) == hash(b) and a.id == b.id.
C7_EqAndHash ==
  last.op = "compare" =>
    LET a == heap[last.obj]
        b == heap[last.arg]
    IN /\ last.ret.eq <=> \A f \in FieldSet : PyEq(a[f], b[f])
       /\ last.ret.eq =>
            (last.ret.hash_a = last.ret.hash_b /\ last.ret.id_a = last.ret.id_b)

\* C7 witness: two distinct objects with the same non-trivial fields were
\* compared and found equal.
C7_Witness ==
  /\ last.op = "compare"
  /\ last.obj # last.arg
  /\ last.ret.eq
  /\ heap[last.obj].postal_code = PyStr("x")

\* C6: edit overwrites exactly the fields passed, with the values passed
\* (None and the empty string included), leaves every other field and every
\* other object alone, and returns the object it mutated.
C6_EditFrame ==
  [][last'.op = "edit" =>
       LET o == last'.obj
           kw == last'.arg
       IN /\ \A f \in FieldSet :
               heap'[o][f] = IF f \in Passed(kw) THEN kw[f] ELSE heap[o][f]
          /\ last'.ret = o
          /\ \A p \in Obj \ {o} : heap'[p] = heap[p]]_vars

\* C6 witness: an edit passed two fields, one of them an explicit None, and
\* the object holds them while its recipient_name is what it was.
C6_Witness ==
  /\ last.op = "edit"
  /\ Cardinality(Passed(last.arg)) = 2
  /\ last.arg["city"] = PyNone
  /\ last.arg["state"] = PyStr("x")
  /\ heap[last.obj].city = PyNone
  /\ heap[last.obj].state = PyStr("x")
  /\ heap[last.obj].recipient_name = PyStr("b")

\* C9: every Address has a string for recipient_name, and a field deletion
\* fails with AttributeError and changes no field.
C9_RecipientNamePresent ==
  /\ \A o \in Allocated : heap[o].recipient_name.t = "str"
  /\ last.op = "delattr" =>
       (last.err = "AttributeError" /\ heap[last.obj] = last.pre)

\* C4: add_address(x) and book[i] = x with a member equal to x in the book
\* raise nothing and leave the set and its size as they were.
C4_AddExistingIsNoOp ==
  (/\ last.op \in {"add_address", "__setitem__"}
   /\ HasEqual(last.pre, heap, heap[last.obj])) =>
    /\ last.err = "none"
    /\ books[1].entries = last.pre
    /\ Cardinality(books[1].entries) = Cardinality(last.pre)

\* C4 witness: a second object equal to the only member was added and the
\* book still holds one address.
C4_Witness ==
  /\ last.op = "add_address"
  /\ Cardinality(last.pre) = 1
  /\ \E e \in last.pre :
       e.obj # last.obj /\ Address_eq(heap[e.obj], heap[last.obj])
  /\ Cardinality(books[1].entries) = 1

\* C5: remove_address(x) without a member equal to x raises KeyError and
\* changes nothing; with one it raises nothing, the size drops by one, x is
\* no longer contained and every other member still is.
C5_Remove ==
  last.op = "remove_address" =>
    IF HasEqual(last.pre, heap, heap[last.obj])
    THEN /\ last.err = "none"
         /\ Cardinality(books[1].entries) = Cardinality(last.pre) - 1
         /\ ~set_contains(books[1].entries, heap, last.obj)
         /\ ~HasEqual(books[1].entries, heap, heap[last.obj])
         /\ \A e \in last.pre :
              ~Address_eq(heap[e.obj], heap[last.obj]) =>
                (e \in books[1].entries
                 /\ set_contains(books[1].entries, heap, e.obj))
    ELSE /\ last.err = "KeyError"
         /\ books[1].entries = last.pre

\* C5 witness: an object equal to one of two members, and not itself a
\* member, was removed and the other member stayed.
C5_Witness ==
  /\ last.op = "remove_address"
  /\ last.err = "none"
  /\ Cardinality(last.pre) = 2
  /\ last.obj \notin {e.obj : e \in last.pre}
  /\ Cardinality(books[1].entries) = 1

\* C3: no two entries of the book hold addresses that compare equal.
C3_UniqueMembers ==
  \A e1, e2 \in books[1].entries :
    e1 # e2 => ~Address_eq(heap[e1.obj], heap[e2.obj])

\* C2: from_file right after to_file returns the holder name and id the
\* book has and the same set of address values.
C2_FileRoundTrip ==
  (last.op = "from_file" /\ last.arg = "to_file") =>
    /\ last.err = "none"
    /\ last.ret.name = books[1].name
    /\ last.ret.id = books[1].id
    /\ \A x \in MemberValues(books[1].entries, heap) :
         HasEqual(last.ret.entries, last.ret.heap, x)
    /\ \A x \in MemberValues(last.ret.entries, last.ret.heap) :
         HasEqual(books[1].entries, heap, x)

\* C8: b1 == b2 exactly when the two holder ids are the same value, so a
\* book equals itself.
C8_BookEqById ==
  last.op = "__eq__" =>
    /\ last.ret <=> (books[last.book].id = books[last.arg].id)
    /\ last.book = last.arg => last.ret

\* C10: after a request that changed the book the file holds the book's
\* to_dict(), loading it gives the book's addresses (None and the empty
\* string taken as the same), and /delete removed one member, whose id is
\* the id asked for.
C10_SavedAfterEveryMutation ==
  (last.op \in {"/add", "/delete"} /\ last.err = "none") =>
    /\ file # NoFile
    /\ \E order \in IterOrders(books[1].entries) :
         file = JsonDump(AddressBook_to_dict(books[1], heap, order))
    /\ LET r == from_file(file)
       IN /\ \A x \in MemberValues(books[1].entries, heap) :
               \E y \in MemberValues(r.entries, r.heap) :
                 \A f \in FieldSet : SameOptional(x[f], y[f])
          /\ \A y \in MemberValues(r.entries, r.heap) :
               \E x \in MemberValues(books[1].entries, heap) :
                 \A f \in FieldSet : SameOptional(x[f], y[f])
    /\ last.op = "/delete" =>
         \E e \in last.pre :
           /\ books[1].entries = last.pre \ {e}
           /\ "0" \o ToString(e.hash) = last.arg

=============================================================================
